---- MODULE Spec2Model ----
(***************************************************************************)
(* Automatic irrigation controller (src/src/main.cpp): the crop selection  *)
(* of setup() and the sampling cycle of loop().                            *)
(*                                                                         *)
(* Numbers.  The sketch computes the readings in float.  A reading is      *)
(* represented here by its exact value multiplied by ADC_MAX_VALUE, an     *)
(* integer: temperature = raw * 500 - 50 * 1023 stands for                 *)
(* (raw * 5.0 / 1023) * 100.0 - 50.  Every threshold the code compares a   *)
(* reading with is an integer T; raw * 500 / 1023 is an integer only for   *)
(* raw = 0 and raw = 1023 (1023 = 3 * 11 * 31 is coprime to 500), where    *)
(* the float computation is exact, and otherwise lies at least 1/1023 from *)
(* every integer, far more than the float rounding error (below 1e-4), so  *)
(* each comparison of the code has the outcome of the exact comparison     *)
(* reading <op> T * ADC_MAX_VALUE made here.  The crop parameters are the  *)
(* integer literals of the code, kept unscaled.                            *)
(***************************************************************************)
EXTENDS Integers, FiniteSets, Sequences, TLC

VARIABLES
    pc,              \* position of the single control thread
    option,          \* selectCrop: char option, the last poll result (ASCII code)
    selectedCrop,    \* systemState.selectedCrop (byte)
    cropValid,       \* systemState.cropValid
    motorActive,     \* systemState.motorActive
    temperature,     \* systemState.sensorReadings.temperature (x ADC_MAX_VALUE)
    humidity,        \* systemState.sensorReadings.humidity (x ADC_MAX_VALUE)
    cropParameters,  \* the global CropParameters
    motorPin,        \* level of the output line IRRIGATION_MOTOR
    lcd,             \* the two lines last written to the display
    adc              \* the raw counts last returned by analogRead, per channel

vars == <<pc, option, selectedCrop, cropValid, motorActive, temperature,
          humidity, cropParameters, motorPin, lcd, adc>>

systemState == <<selectedCrop, cropValid, motorActive, temperature, humidity>>

-----------------------------------------------------------------------------
(* Program constants *)

ADC_MAX_VALUE == 1023

VCC == 5

TEMP_CALIBRATION_OFFSET == -50

\* Keypad library: the value getKey() returns when no key is pressed ('\0').
NO_KEY == 0

\* sizeof(cropList) / sizeof(cropList[0])
sizeCropList == 2

\* ASCII code of '0'
ASCII_ZERO == 48

\* const char keys[ROWS][COLS], as ASCII codes
keys == { 49, 50, 51, 65,
          52, 53, 54, 66,
          55, 56, 57, 67,
          42, 48, 35, 68 }

HIGH == "HIGH"
LOW == "LOW"

Byte == 0..255

\* Conversion of an int to byte (uint8_t)
ToByte(n) == n % 256

-----------------------------------------------------------------------------
(* Bounds of the model *)

\* Raw ADC samples are taken within RawWindow counts of each place where a
\* calibrated reading crosses a threshold of the code, plus both ends.
RawWindow == 1

\* The calls made on arbitrary parameter sets draw each field from
\* {-MaxParam, 0, MaxParam}.
MaxParam == 150

-----------------------------------------------------------------------------
(* Pure functions *)

CropParams(a, b, c, d) ==
    [minTemp |-> a, maxTemp |-> b, minHumidity |-> c, maxHumidity |-> d]

\* Zero-initialised global
ZeroParameters == CropParams(0, 0, 0, 0)

isValidCropSelection_noLower(selection) == selection <= sizeCropList

isValidCropSelection(selection) ==
    selection >= 1 /\ selection <= sizeCropList

addCropParameters_keepsNothing(opt, p) ==
    CASE opt = 1 -> CropParams(15, 24, 40, 50)
      [] opt = 2 -> CropParams(15, 20, 60, 80)
      [] OTHER   -> ZeroParameters

addCropParameters_swapped(opt, p) ==
    CASE opt = 1 -> CropParams(15, 20, 60, 80)
      [] opt = 2 -> CropParams(15, 24, 40, 50)
      [] OTHER   -> p

addCropParameters_badRange(opt, p) ==
    CASE opt = 1 -> CropParams(15, 24, 40, 50)
      [] opt = 2 -> CropParams(15, 20, 80, 60)
      [] OTHER   -> p

\* The value of cropParameters after addCropParameters(opt), p being its value
\* before the call.
addCropParameters(opt, p) ==
    CASE opt = 1 -> CropParams(15, 24, 40, 50)
      [] opt = 2 -> CropParams(15, 20, 60, 80)
      [] OTHER   -> p

Calibrate_int16(raw, offset) ==
    (((raw * VCC * 100 + 32768) % 65536) - 32768) + offset * ADC_MAX_VALUE

\* SensorData::update, one channel: (raw * VCC / ADC_MAX_VALUE) * 100.0 + offset,
\* multiplied by ADC_MAX_VALUE.
Calibrate(raw, offset) == raw * VCC * 100 + offset * ADC_MAX_VALUE

readTemperature(raw) == Calibrate(raw, TEMP_CALIBRATION_OFFSET)

readHumidity(raw) == Calibrate(raw, 0)

\* The sanity test of receiveRange
TempInvalid(tmp) == tmp < -20 * ADC_MAX_VALUE \/ tmp > 100 * ADC_MAX_VALUE

HumInvalid(hum) == hum < 0 \/ hum > 100 * ADC_MAX_VALUE

receiveRange_noSanity(tmp, hum, p) ==
    IF tmp >= p.minTemp * ADC_MAX_VALUE /\ tmp <= p.maxTemp * ADC_MAX_VALUE
       /\ hum <= p.minHumidity * ADC_MAX_VALUE
    THEN TRUE
    ELSE IF tmp >= p.minTemp * ADC_MAX_VALUE /\ tmp <= p.maxTemp * ADC_MAX_VALUE
            /\ hum <= p.maxHumidity * ADC_MAX_VALUE
    THEN TRUE
    ELSE FALSE

receiveRange_minHumidityOnly(tmp, hum, p) ==
    IF TempInvalid(tmp) THEN FALSE
    ELSE IF HumInvalid(hum) THEN FALSE
    ELSE IF tmp >= p.minTemp * ADC_MAX_VALUE /\ tmp <= p.maxTemp * ADC_MAX_VALUE
            /\ hum <= p.minHumidity * ADC_MAX_VALUE
    THEN TRUE
    ELSE FALSE

\* The value receiveRange(tmp, hum) returns when cropParameters = p.
receiveRange(tmp, hum, p) ==
    IF TempInvalid(tmp) THEN FALSE
    ELSE IF HumInvalid(hum) THEN FALSE
    ELSE IF tmp >= p.minTemp * ADC_MAX_VALUE /\ tmp <= p.maxTemp * ADC_MAX_VALUE
            /\ hum <= p.minHumidity * ADC_MAX_VALUE
    THEN TRUE
    ELSE IF tmp >= p.minTemp * ADC_MAX_VALUE /\ tmp <= p.maxTemp * ADC_MAX_VALUE
            /\ hum <= p.maxHumidity * ADC_MAX_VALUE
    THEN TRUE
    ELSE FALSE

\* What receiveRange(tmp, hum) leaves on the display, shown being there before.
receiveRangeDisplay(tmp, hum, shown) ==
    IF TempInvalid(tmp) THEN <<"Rango de", "temp invalida">>
    ELSE IF HumInvalid(hum) THEN <<"Rango de", "humedad invalida">>
    ELSE shown

controlIrrigation_stuckHigh(shouldActivateMotor) == HIGH

controlIrrigation_inverted(shouldActivateMotor) ==
    IF shouldActivateMotor = TRUE THEN LOW ELSE HIGH

\* The level controlIrrigation(shouldActivateMotor) writes to IRRIGATION_MOTOR.
controlIrrigation(shouldActivateMotor) ==
    IF shouldActivateMotor = TRUE THEN HIGH ELSE LOW

-----------------------------------------------------------------------------
(* Inputs *)

\* What key.getKey() can return
PollResults == keys \cup {NO_KEY}

\* The first raw count whose calibrated value reaches threshold T
Crossing(T, offset) == ((T - offset) * ADC_MAX_VALUE + VCC * 100 - 1) \div (VCC * 100)

RawNear(T, offset) ==
    { r \in 0..ADC_MAX_VALUE :
        r >= Crossing(T, offset) - RawWindow /\ r <= Crossing(T, offset) + RawWindow }

TmpRaws ==
    {0, ADC_MAX_VALUE} \cup
    UNION { RawNear(T, TEMP_CALIBRATION_OFFSET) : T \in {-20, 15, 20, 24, 100} }

HumRaws ==
    {0, ADC_MAX_VALUE} \cup
    UNION { RawNear(T, 0) : T \in {0, 40, 50, 60, 80, 100} }

-----------------------------------------------------------------------------
(* The program *)

SelectPcs == {"select_poll", "select_mark", "select_process"}

LoopPcs == {"loop_update", "loop_receiveRange", "loop_printData",
            "loop_controlIrrigation", "loop_delay"}

Init ==
    /\ pc = "setup"
    /\ option = NO_KEY
    /\ selectedCrop = 0
    /\ cropValid = FALSE
    /\ motorActive = FALSE
    /\ temperature = 0
    /\ humidity = 0
    /\ cropParameters = ZeroParameters
    /\ motorPin = LOW
    /\ lcd = <<"", "">>
    /\ adc = [tmp |-> 0, hum |-> 0]

setup_init_pinHigh ==
    /\ pc = "setup"
    /\ lcd' = <<"", "">>
    /\ motorPin' = HIGH
    /\ pc' = "select_poll"
    /\ UNCHANGED <<adc, option, selectedCrop, cropValid, motorActive, temperature,
                   humidity, cropParameters>>

\* setup(), up to the do-while: pinMode, initLCD, showMenu
setup_init ==
    /\ pc = "setup"
    /\ lcd' = <<"", "">>
    /\ pc' = "select_poll"
    /\ UNCHANGED <<adc, option, selectedCrop, cropValid, motorActive, temperature,
                   humidity, cropParameters, motorPin>>

\* selectCrop(): one iteration of the while loop, up to the call of
\* addCropParameters for a valid selection.
selectCrop_poll ==
    /\ pc = "select_poll"
    /\ \E k \in PollResults :
        /\ option' = k
        /\ selectedCrop' = ToByte(k - ASCII_ZERO)
        /\ IF k # NO_KEY
           THEN IF isValidCropSelection(ToByte(k - ASCII_ZERO))
                THEN /\ cropParameters' =
                            addCropParameters(ToByte(k - ASCII_ZERO), cropParameters)
                     /\ lcd' = <<"Seleccione un", "cultivo valido">>
                     /\ pc' = "select_mark"
                ELSE /\ lcd' = <<"Selecc invalida", "">>
                     /\ pc' = IF cropValid THEN "setup_while" ELSE "select_poll"
                     /\ UNCHANGED cropParameters
           ELSE /\ lcd' = <<"Seleccione un", "cultivo valido">>
                /\ pc' = IF cropValid THEN "setup_while" ELSE "select_poll"
                /\ UNCHANGED cropParameters
    /\ UNCHANGED <<adc, cropValid, motorActive, temperature, humidity, motorPin>>

\* selectCrop(): systemState.cropValid = true and the second validity test
selectCrop_mark ==
    /\ pc = "select_mark"
    /\ cropValid' = TRUE
    /\ pc' = IF isValidCropSelection(selectedCrop)
             THEN "select_process"
             ELSE "setup_while"
    /\ UNCHANGED <<adc, option, selectedCrop, motorActive, temperature, humidity,
                   cropParameters, motorPin, lcd>>

processCropSelection_resets ==
    /\ pc = "select_process"
    /\ lcd' = <<"", "">>
    /\ cropValid' = FALSE
    /\ pc' = "setup_while"
    /\ UNCHANGED <<adc, option, selectedCrop, motorActive, temperature, humidity,
                   cropParameters, motorPin>>

\* processCropSelection(selection), then the return of selectCrop
processCropSelection ==
    /\ pc = "select_process"
    /\ lcd' = <<"", "">>
    /\ cropValid' = TRUE
    /\ pc' = "setup_while"
    /\ UNCHANGED <<adc, option, selectedCrop, motorActive, temperature, humidity,
                   cropParameters, motorPin>>

setup_while_inverted ==
    /\ pc = "setup_while"
    /\ pc' = IF cropValid = FALSE THEN "setup_add" ELSE "select_poll"
    /\ UNCHANGED <<adc, option, selectedCrop, cropValid, motorActive, temperature,
                   humidity, cropParameters, motorPin, lcd>>

\* setup(): } while (systemState.cropValid == false);
setup_while ==
    /\ pc = "setup_while"
    /\ pc' = IF cropValid = FALSE THEN "select_poll" ELSE "setup_add"
    /\ UNCHANGED <<adc, option, selectedCrop, cropValid, motorActive, temperature,
                   humidity, cropParameters, motorPin, lcd>>

setup_add_zeroBased ==
    /\ pc = "setup_add"
    /\ cropParameters' = addCropParameters(selectedCrop - 1, cropParameters)
    /\ pc' = "loop_update"
    /\ UNCHANGED <<adc, option, selectedCrop, cropValid, motorActive, temperature,
                   humidity, motorPin, lcd>>

\* setup(): addCropParameters(systemState.selectedCrop), then loop() starts
setup_add ==
    /\ pc = "setup_add"
    /\ cropParameters' = addCropParameters(selectedCrop, cropParameters)
    /\ pc' = "loop_update"
    /\ UNCHANGED <<adc, option, selectedCrop, cropValid, motorActive, temperature,
                   humidity, motorPin, lcd>>

loop_update_skipsDecision ==
    /\ pc = "loop_update"
    /\ \E rt \in TmpRaws, rh \in HumRaws :
        /\ adc' = [tmp |-> rt, hum |-> rh]
        /\ temperature' = readTemperature(rt)
        /\ humidity' = readHumidity(rh)
    /\ pc' = "loop_printData"
    /\ UNCHANGED <<option, selectedCrop, cropValid, motorActive, cropParameters,
                   motorPin, lcd>>

\* loop(): systemState.sensorReadings.update()
loop_update ==
    /\ pc = "loop_update"
    /\ \E rt \in TmpRaws, rh \in HumRaws :
        /\ adc' = [tmp |-> rt, hum |-> rh]
        /\ temperature' = readTemperature(rt)
        /\ humidity' = readHumidity(rh)
    /\ pc' = "loop_receiveRange"
    /\ UNCHANGED <<option, selectedCrop, cropValid, motorActive, cropParameters,
                   motorPin, lcd>>

loop_receiveRange_hysteresis ==
    /\ pc = "loop_receiveRange"
    /\ motorActive' =
        (\/ receiveRange(temperature, humidity, cropParameters)
         \/ (motorActive /\ ~TempInvalid(temperature) /\ ~HumInvalid(humidity)))
    /\ lcd' = receiveRangeDisplay(temperature, humidity, lcd)
    /\ pc' = "loop_printData"
    /\ UNCHANGED <<adc, option, selectedCrop, cropValid, temperature, humidity,
                   cropParameters, motorPin>>

loop_receiveRange_actuates ==
    /\ pc = "loop_receiveRange"
    /\ motorActive' = receiveRange(temperature, humidity, cropParameters)
    /\ motorPin' = controlIrrigation(motorActive')
    /\ lcd' = receiveRangeDisplay(temperature, humidity, lcd)
    /\ pc' = "loop_printData"
    /\ UNCHANGED <<adc, option, selectedCrop, cropValid, temperature, humidity,
                   cropParameters>>

\* loop(): systemState.motorActive = receiveRange(temperature, humidity)
loop_receiveRange ==
    /\ pc = "loop_receiveRange"
    /\ motorActive' = receiveRange(temperature, humidity, cropParameters)
    /\ lcd' = receiveRangeDisplay(temperature, humidity, lcd)
    /\ pc' = "loop_printData"
    /\ UNCHANGED <<adc, option, selectedCrop, cropValid, temperature, humidity,
                   cropParameters, motorPin>>

\* loop(): printData()
loop_printData ==
    /\ pc = "loop_printData"
    /\ lcd' = <<"Temp", "Humedad">>
    /\ pc' = "loop_controlIrrigation"
    /\ UNCHANGED <<adc, option, selectedCrop, cropValid, motorActive, temperature,
                   humidity, cropParameters, motorPin>>

\* loop(): controlIrrigation(systemState.motorActive)
loop_controlIrrigation ==
    /\ pc = "loop_controlIrrigation"
    /\ motorPin' = controlIrrigation(motorActive)
    /\ pc' = "loop_delay"
    /\ UNCHANGED <<adc, option, selectedCrop, cropValid, motorActive, temperature,
                   humidity, cropParameters, lcd>>

\* loop(): delay(DELAY_1_SEG), then the next call of loop()
loop_delay ==
    /\ pc = "loop_delay"
    /\ pc' = "loop_update"
    /\ UNCHANGED <<adc, option, selectedCrop, cropValid, motorActive, temperature,
                   humidity, cropParameters, motorPin, lcd>>

Next ==
    \/ setup_init
    \/ selectCrop_poll
    \/ selectCrop_mark
    \/ processCropSelection
    \/ setup_while
    \/ setup_add
    \/ loop_update
    \/ loop_receiveRange
    \/ loop_printData
    \/ loop_controlIrrigation
    \/ loop_delay

Spec == Init /\ [][Next]_vars

\* The single control thread never stops: setup() runs to its end and loop()
\* is called again and again.
SpecFair == Spec /\ WF_vars(Next)

-----------------------------------------------------------------------------
(* Single calls of addCropParameters and receiveRange on arbitrary contents  *)
(* of cropParameters and arbitrary readings                                  *)

ParamValues == {-MaxParam, 0, MaxParam}

ParamSamples ==
    [minTemp : ParamValues, maxTemp : ParamValues,
     minHumidity : ParamValues, maxHumidity : ParamValues]
    \cup { addCropParameters(i, ZeroParameters) : i \in 1..sizeCropList }

\* Readings at, just below and just above every threshold of the code
CallReadings ==
    { T * ADC_MAX_VALUE + d :
        T \in {-20, 0, 15, 20, 24, 40, 50, 60, 80, 100}, d \in -1..1 }

InitCalls ==
    /\ pc = "call"
    /\ option = NO_KEY
    /\ selectedCrop = 0
    /\ cropValid = FALSE
    /\ motorActive \in BOOLEAN
    /\ temperature = 0
    /\ humidity = 0
    /\ cropParameters \in ParamSamples
    /\ motorPin \in {LOW, HIGH}
    /\ lcd = <<"", "">>
    /\ adc = [tmp |-> 0, hum |-> 0]

\* addCropParameters(systemState.selectedCrop) for any byte
call_addCropParameters ==
    /\ pc = "call"
    /\ \E id \in Byte :
        /\ selectedCrop' = id
        /\ cropParameters' = addCropParameters(id, cropParameters)
    /\ pc' = "called_addCropParameters"
    /\ UNCHANGED <<adc, option, cropValid, motorActive, temperature, humidity,
                   motorPin, lcd>>

\* systemState.motorActive = receiveRange(temperature, humidity) for any reading
call_receiveRange ==
    /\ pc = "call"
    /\ \E tmp \in CallReadings, hum \in CallReadings :
        /\ temperature' = tmp
        /\ humidity' = hum
        /\ motorActive' = receiveRange(tmp, hum, cropParameters)
        /\ lcd' = receiveRangeDisplay(tmp, hum, lcd)
    /\ pc' = "called_receiveRange"
    /\ UNCHANGED <<adc, option, selectedCrop, cropValid, cropParameters, motorPin>>

\* controlIrrigation(systemState.motorActive) for either value, once and then
\* once more
call_controlIrrigation ==
    /\ pc \in {"call", "called_controlIrrigation"}
    /\ \E b \in BOOLEAN :
        /\ motorActive' = b
        /\ motorPin' = controlIrrigation(b)
    /\ pc' = IF pc = "call" THEN "called_controlIrrigation"
                            ELSE "called_controlIrrigation_twice"
    /\ UNCHANGED <<adc, option, selectedCrop, cropValid, temperature, humidity,
                   cropParameters, lcd>>

NextCalls ==
    \/ call_addCropParameters
    \/ call_receiveRange
    \/ call_controlIrrigation

SpecCalls == InitCalls /\ [][NextCalls]_vars

-----------------------------------------------------------------------------
(* Repeated calls of readTemperature and readHumidity on every raw count     *)

InitSensor ==
    /\ pc = "sense"
    /\ option = NO_KEY
    /\ selectedCrop = 0
    /\ cropValid = FALSE
    /\ motorActive = FALSE
    /\ temperature = 0
    /\ humidity = 0
    /\ cropParameters = ZeroParameters
    /\ motorPin = LOW
    /\ lcd = <<"", "">>
    /\ adc = [tmp |-> 0, hum |-> 0]

\* temperature = readTemperature(), analogRead(TMP_SENSOR) returning any count
call_readTemperature ==
    /\ pc \in {"sense", "sensed_temperature"}
    /\ \E raw \in 0..ADC_MAX_VALUE :
        /\ adc' = [adc EXCEPT !.tmp = raw]
        /\ temperature' = readTemperature(raw)
    /\ pc' = "sensed_temperature"
    /\ UNCHANGED <<option, selectedCrop, cropValid, motorActive, humidity,
                   cropParameters, motorPin, lcd>>

\* humidity = readHumidity(), analogRead(HUM_SENSOR) returning any count
call_readHumidity ==
    /\ pc \in {"sense", "sensed_humidity"}
    /\ \E raw \in 0..ADC_MAX_VALUE :
        /\ adc' = [adc EXCEPT !.hum = raw]
        /\ humidity' = readHumidity(raw)
    /\ pc' = "sensed_humidity"
    /\ UNCHANGED <<option, selectedCrop, cropValid, motorActive, temperature,
                   cropParameters, motorPin, lcd>>

NextSensor ==
    \/ call_readTemperature
    \/ call_readHumidity

SpecSensor == InitSensor /\ [][NextSensor]_vars

-----------------------------------------------------------------------------
(* Properties *)

\* The readings the sanity check of the decision rejects, in the units of
\* temperature and humidity (value x 1023)
OutOfSanity(tmp, hum) ==
    tmp < -20 * 1023 \/ tmp > 100 * 1023 \/ hum < 0 \/ hum > 100 * 1023

\* The id the selection computes from a poll result: (key - '0') in a byte
KeyId(k) == (k - 48) % 256

\* The literal tuple of each crop id
CropTuple(id) ==
    IF id = 1
    THEN [minTemp |-> 15, maxTemp |-> 24, minHumidity |-> 40, maxHumidity |-> 50]
    ELSE [minTemp |-> 15, maxTemp |-> 20, minHumidity |-> 60, maxHumidity |-> 80]

\* The positions at which the selection has returned to setup() as confirmed
ConfirmedPcs == {"setup_add"} \cup LoopPcs

\* C1 (SpecCalls): fail-safe. Whatever cropParameters holds, the decision made
\* on a reading with temperature < -20 or > 100, or humidity < 0 or > 100, is
\* false.
C1_FailSafe ==
    (pc = "called_receiveRange" /\ OutOfSanity(temperature, humidity))
        => motorActive = FALSE

\* C1 witness: a decision was made on an out-of-range temperature with
\* parameters whose thresholds alone would accept the reading.
C1_Witness ==
    /\ pc = "called_receiveRange"
    /\ temperature > 100 * 1023
    /\ humidity >= 0 /\ humidity <= 100 * 1023
    /\ cropParameters.minTemp * 1023 <= temperature
    /\ temperature <= cropParameters.maxTemp * 1023
    /\ humidity <= cropParameters.maxHumidity * 1023
    /\ motorActive = FALSE

\* C2 (SpecCalls): for a reading that passes the sanity check and the tuple of
\* crop 1 or of crop 2, the decision is true iff minTemp <= temperature <=
\* maxTemp and humidity <= maxHumidity (inclusive bounds, minHumidity plays no
\* part).
C2_Threshold ==
    ( /\ pc = "called_receiveRange"
      /\ cropParameters \in {CropTuple(1), CropTuple(2)}
      /\ ~OutOfSanity(temperature, humidity) )
        => ( motorActive <=>
                /\ cropParameters.minTemp * 1023 <= temperature
                /\ temperature <= cropParameters.maxTemp * 1023
                /\ humidity <= cropParameters.maxHumidity * 1023 )

\* C2 witness: crop 1, temperature exactly minTemp, humidity exactly
\* maxHumidity (above minHumidity): the decision is true.
C2_Witness ==
    /\ pc = "called_receiveRange"
    /\ cropParameters = CropTuple(1)
    /\ temperature = 15 * 1023
    /\ humidity = 50 * 1023
    /\ motorActive = TRUE

\* C3 (Spec): a poll whose id is outside 1..2 leaves the selection awaiting
\* input and unconfirmed; a poll whose id is in 1..2 stores that id and its
\* tuple and leads only to the confirmed positions; once the selection is
\* confirmed the id, the tuple and the key read never change again.
C3_Selection ==
    /\ [][pc = "select_poll" =>
            IF KeyId(option') \in 1..2
            THEN /\ selectedCrop' = KeyId(option')
                 /\ cropParameters' = CropTuple(KeyId(option'))
                 /\ pc' = "select_mark"
            ELSE /\ pc' = "select_poll"
                 /\ cropValid' = FALSE]_vars
    /\ [][(pc = "select_mark" => pc' = "select_process" /\ cropValid')
          /\ (pc = "select_process" => pc' = "setup_while" /\ cropValid')
          /\ (pc = "setup_while" => pc' = "setup_add")]_vars
    /\ [](cropValid =>
            /\ selectedCrop = KeyId(option)
            /\ selectedCrop \in 1..2
            /\ cropParameters = CropTuple(selectedCrop))
    /\ [][cropValid => UNCHANGED <<option, selectedCrop, cropParameters>>]_vars

\* C3 witness: the selection is confirmed on key '2' with crop 2's tuple
\* {15, 20, 60, 80}.
C3_Witness ==
    /\ pc = "setup_add"
    /\ cropValid
    /\ option = 50
    /\ selectedCrop = 2
    /\ cropParameters =
        [minTemp |-> 15, maxTemp |-> 20, minHumidity |-> 60, maxHumidity |-> 80]

\* C4 (Spec): a poll result is accepted iff it is the digit '1' or '2'; the
\* other digits, the letters, '*', '#' and the no-key value are not, their ids
\* being (key - '0') modulo 256.
C4_KeyAccepted ==
    /\ [][pc = "select_poll" =>
            /\ (pc' = "select_mark" <=> option' \in {49, 50})
            /\ selectedCrop' = KeyId(option')]_vars
    /\ [](pc \in {"select_mark", "select_process"} \cup ConfirmedPcs
            => option \in {49, 50})

\* C4 witness: '*' was polled, its id wrapped to 250, and the selection is
\* still awaiting input.
C4_Witness ==
    /\ pc = "select_poll"
    /\ option = 42
    /\ selectedCrop = 250
    /\ cropValid = FALSE

\* C5 (SpecCalls): a call of addCropParameters with an id outside 1..2 leaves
\* the four fields of cropParameters as they were.
C5_LookupFrame ==
    [][(pc = "call" /\ pc' = "called_addCropParameters" /\ selectedCrop' \notin 1..2)
        => cropParameters' = cropParameters]_vars

\* C5 witness: addCropParameters(255) was called on parameters that are
\* neither zero nor a crop's tuple.
C5_Witness ==
    /\ pc = "called_addCropParameters"
    /\ selectedCrop = 255
    /\ cropParameters.minTemp < 0
    /\ cropParameters.maxHumidity > 100

\* C6 (Spec): the handling of a pressed key that is no digit or whose id is
\* outside 1..2 changes neither cropParameters nor any field of SystemState and
\* ends awaiting input.
C6_InvalidNoChange ==
    [][(pc = "select_poll" /\ option' # 0 /\ option' \notin {49, 50})
        => /\ pc' = "select_poll"
           /\ UNCHANGED <<cropParameters, selectedCrop, cropValid, motorActive,
                          temperature, humidity>>]_vars

\* C7 (Spec): in a cycle whose reading is out of the sanity bounds the
\* actuation step drives the line low whatever its level, the reading stays
\* that of the cycle until the delay, and the delay is followed by the next
\* sensor read.
C7_FaultDrivesLow ==
    /\ [][(pc = "loop_controlIrrigation" /\ OutOfSanity(temperature, humidity))
            => (motorPin' = "LOW" /\ pc' = "loop_delay")]_vars
    /\ [](pc = "loop_delay" /\ OutOfSanity(temperature, humidity)
            => motorPin = "LOW")
    /\ [][(pc \in {"loop_receiveRange", "loop_printData", "loop_controlIrrigation"})
            => (pc' \in LoopPcs /\ temperature' = temperature
                              /\ humidity' = humidity)]_vars
    /\ [][pc = "loop_delay" => pc' = "loop_update"]_vars

\* C7 witness: the decision of a cycle with an out-of-range reading has been
\* made while the line is still high from the previous cycle.
C7_Witness ==
    /\ pc = "loop_controlIrrigation"
    /\ OutOfSanity(temperature, humidity)
    /\ motorActive = FALSE
    /\ motorPin = "HIGH"

\* C8 (Spec): the steps of a cycle follow in the order sensor read, decision,
\* display, actuation, delay, then the next sensor read; the reading changes
\* only in the sensor read, motorActive only in the decision, the line only in
\* the actuation; and after the actuation the line is high iff the decision on
\* the reading of this cycle is true.
C8_CycleOrder ==
    /\ [][/\ pc = "loop_update" => pc' = "loop_receiveRange"
          /\ pc = "loop_receiveRange" => pc' = "loop_printData"
          /\ pc = "loop_printData" => pc' = "loop_controlIrrigation"
          /\ pc = "loop_controlIrrigation" => pc' = "loop_delay"
          /\ pc = "loop_delay" => pc' = "loop_update"]_vars
    /\ [][/\ <<temperature, humidity>>' # <<temperature, humidity>>
                => pc = "loop_update"
          /\ motorActive' # motorActive => pc = "loop_receiveRange"
          /\ motorPin' # motorPin => pc = "loop_controlIrrigation"]_vars
    /\ [](pc \in {"loop_printData", "loop_controlIrrigation", "loop_delay"}
            => motorActive = receiveRange(temperature, humidity, cropParameters))
    /\ [](pc = "loop_delay" => (motorPin = "HIGH" <=> motorActive))

\* C8 witness: a cycle has ended with the line high on a reading the decision
\* accepts.
C8_Witness ==
    /\ pc = "loop_delay"
    /\ motorPin = "HIGH"
    /\ motorActive
    /\ temperature >= 15 * 1023

\* C9 (Spec): cropValid is false at startup and never goes from true to
\* false; every position of the sampling loop is held with cropValid true, and
\* a step taken while it is false is no sensor read, decision or actuation;
\* once the selection has returned confirmed, no position of the selection is
\* entered again.
C9_ConfirmedOnce ==
    /\ [](pc = "setup" => cropValid = FALSE)
    /\ [][cropValid => cropValid']_vars
    /\ [](pc \in LoopPcs => cropValid)
    /\ [][(cropValid = FALSE)
            => /\ pc' \notin {"loop_receiveRange", "loop_printData",
                              "loop_controlIrrigation", "loop_delay"}
               /\ temperature' = temperature /\ humidity' = humidity
               /\ motorActive' = motorActive /\ motorPin' = motorPin]_vars
    /\ [][(cropValid /\ pc \in {"setup_while"} \cup ConfirmedPcs)
            => pc' \in ConfirmedPcs]_vars

\* C9 witness: the loop runs, with a reading taken, after the confirmation.
C9_Witness ==
    /\ pc = "loop_receiveRange"
    /\ cropValid
    /\ temperature # 0

\* C10 (Spec): in every state minTemp <= maxTemp and
\* 0 <= minHumidity <= maxHumidity <= 100.
C10_ParamRange ==
    /\ cropParameters.minTemp <= cropParameters.maxTemp
    /\ 0 <= cropParameters.minHumidity
    /\ cropParameters.minHumidity <= cropParameters.maxHumidity
    /\ cropParameters.maxHumidity <= 100

\* C10 witness: a loop cycle runs on crop 2's parameters.
C10_Witness ==
    /\ pc = "loop_printData"
    /\ selectedCrop = 2
    /\ cropParameters.minHumidity = 60
    /\ cropParameters.maxHumidity = 80

\* C11 (SpecFair): once a key whose id is in 1..2 has been polled the
\* selection is confirmed and the sampling loop starts; as long as no such key
\* has been polled the program is in setup before the selection or awaiting
\* input, and the program only leaves that position on such a key.
C11_SelectionTerminates ==
    /\ (option \in {49, 50}) ~> (cropValid /\ pc = "loop_update")
    /\ [](option \notin {49, 50} => (pc \in {"setup", "select_poll"} /\ ~cropValid))
    /\ [][(pc = "select_poll" /\ option' \notin {49, 50}) => pc' = "select_poll"]_vars

\* C11 witness: the valid key '1' was polled, the selection is confirmed and
\* the sampling loop is about to take its first reading.
C11_Witness ==
    /\ pc = "loop_update"
    /\ option = 49
    /\ cropValid
    /\ adc = [tmp |-> 0, hum |-> 0]

\* C12 (SpecCalls): after controlIrrigation(b) the line is high iff b is
\* true, whatever its level before the call, and a second call with the same
\* b leaves the line as the first call left it.
C12_ActuatorIdempotent ==
    /\ [][(pc' \in {"called_controlIrrigation", "called_controlIrrigation_twice"}
           /\ pc' # pc)
            => (motorPin' = "HIGH" <=> motorActive')]_vars
    /\ [][(pc = "called_controlIrrigation" /\ pc' = "called_controlIrrigation_twice"
           /\ motorActive' = motorActive)
            => motorPin' = motorPin]_vars
    /\ [](pc \in {"called_controlIrrigation", "called_controlIrrigation_twice"}
            => motorPin = IF motorActive THEN "HIGH" ELSE "LOW")

\* C12 witness: controlIrrigation was applied twice, the second time with
\* false, and the line is low.
C12_Witness ==
    /\ pc = "called_controlIrrigation_twice"
    /\ motorActive = FALSE
    /\ motorPin = "LOW"

\* C13 (SpecSensor): of two successive conversions the one of the smaller or
\* equal raw count gives the smaller or equal value, in either order of the two
\* counts and for both channels; equal counts give equal values; and the value
\* is (raw * 5 / 1023) * 100 - 50 for the temperature and (raw * 5 / 1023) * 100
\* for the humidity, here multiplied by 1023.
C13_CalibrationMonotonic ==
    /\ [][(pc = "sensed_temperature")
            => /\ adc.tmp <= adc'.tmp => temperature <= temperature'
               /\ adc.tmp >= adc'.tmp => temperature >= temperature'
               /\ adc.tmp = adc'.tmp => temperature = temperature']_vars
    /\ [][(pc = "sensed_humidity")
            => /\ adc.hum <= adc'.hum => humidity <= humidity'
               /\ adc.hum >= adc'.hum => humidity >= humidity'
               /\ adc.hum = adc'.hum => humidity = humidity']_vars
    /\ [](pc = "sensed_temperature" => temperature = adc.tmp * 500 - 50 * 1023)
    /\ [](pc = "sensed_humidity" => humidity = adc.hum * 500)

\* C13 witness: the full-scale count 1023 was converted to 450 degrees.
C13_Witness ==
    /\ pc = "sensed_temperature"
    /\ adc.tmp = 1023
    /\ temperature = 450 * 1023

\* The decision as a function of the reading and the parameters alone
Decision(tmp, hum, p) ==
    /\ ~OutOfSanity(tmp, hum)
    /\ p.minTemp * 1023 <= tmp
    /\ tmp <= p.maxTemp * 1023
    /\ hum <= p.maxHumidity * 1023

\* C14 (Spec): no hysteresis. The decision step sets motorActive to a function
\* of the reading and the parameters of this cycle, whatever motorActive and
\* the line were before, and the cycle ends with the line high iff that
\* function is true; so two cycles with the same reading and parameters end
\* alike whatever came before them.
C14_NoHysteresis ==
    /\ [][pc = "loop_receiveRange"
            => motorActive' = Decision(temperature, humidity, cropParameters)]_vars
    /\ [][pc = "loop_controlIrrigation"
            => motorPin' = IF Decision(temperature, humidity, cropParameters)
                           THEN "HIGH" ELSE "LOW"]_vars
    /\ [](pc = "loop_delay"
            => /\ motorActive = Decision(temperature, humidity, cropParameters)
               /\ motorPin = "HIGH" <=> Decision(temperature, humidity, cropParameters))

\* C14 witness: the previous cycle ended irrigating and the reading of this
\* cycle, which passes the sanity check, is one the decision refuses.
C14_Witness ==
    /\ pc = "loop_receiveRange"
    /\ motorActive = TRUE
    /\ motorPin = "HIGH"
    /\ ~OutOfSanity(temperature, humidity)
    /\ ~Decision(temperature, humidity, cropParameters)

\* C15 (Spec): whenever cropValid is true, selectedCrop is 1 or 2 and
\* cropParameters is the tuple of that crop; the tuple is already in place in
\* the state from which cropValid becomes true, and no step taken with
\* cropValid true changes selectedCrop or cropParameters.
C15_ValidMeansPopulated ==
    /\ [](cropValid => (selectedCrop \in 1..2
                        /\ cropParameters = CropTuple(selectedCrop)))
    /\ [][(~cropValid /\ cropValid')
            => (selectedCrop \in 1..2 /\ cropParameters = CropTuple(selectedCrop))]_vars
    /\ [][cropValid => (selectedCrop' = selectedCrop
                        /\ cropParameters' = cropParameters)]_vars

\* C15 witness: the second addCropParameters call of setup has run for crop 1
\* and the loop starts on crop 1's tuple.
C15_Witness ==
    /\ pc = "loop_update"
    /\ adc = [tmp |-> 0, hum |-> 0]
    /\ cropValid
    /\ selectedCrop = 1
    /\ cropParameters =
        [minTemp |-> 15, maxTemp |-> 24, minHumidity |-> 40, maxHumidity |-> 50]

\* C16 (Spec): while no selection is confirmed, and until the loop starts, the
\* line is low and motorActive is false; the line goes from low to high only
\* in the actuation step of a loop cycle.
C16_NoIrrigationBeforeSelection ==
    /\ [](~cropValid => (motorPin = "LOW" /\ motorActive = FALSE))
    /\ [](pc \in {"setup", "select_poll", "select_mark", "select_process",
                  "setup_while", "setup_add"}
            => (motorPin = "LOW" /\ motorActive = FALSE))
    /\ [][(motorPin = "LOW" /\ motorPin' = "HIGH")
            => (pc = "loop_controlIrrigation" /\ cropValid)]_vars

\* C16 witness: the key '5' has been rejected, the selection is still awaiting
\* input and the line is low.
C16_Witness ==
    /\ pc = "select_poll"
    /\ option = 53
    /\ cropValid = FALSE
    /\ motorPin = "LOW"
    /\ motorActive = FALSE

\* C17 (Spec): only the actuation step changes the line; the sensor read, the
\* decision, the display and the delay leave it as it is; and during the delay
\* the line is high iff motorActive is true, motorActive being the decision on
\* the reading of this cycle.
C17_ActuatorFrame ==
    /\ [][motorPin' # motorPin => pc = "loop_controlIrrigation"]_vars
    /\ [][(pc \in {"loop_update", "loop_receiveRange", "loop_printData", "loop_delay"})
            => motorPin' = motorPin]_vars
    /\ [](pc = "loop_delay"
            => /\ motorPin = "HIGH" <=> motorActive = TRUE
               /\ motorActive = receiveRange(temperature, humidity, cropParameters))

\* C17 witness: during the delay of a cycle whose reading passes the sanity
\* check and is too wet, the line is low and motorActive is false.
C17_Witness ==
    /\ pc = "loop_delay"
    /\ ~OutOfSanity(temperature, humidity)
    /\ humidity > cropParameters.maxHumidity * 1023
    /\ motorPin = "LOW"
    /\ motorActive = FALSE

====
